---------------------------- MODULE Spec2Model ----------------------------
(***************************************************************************)
(* Model of fitness_tools/mywellness2tcx_pandas.py: the conversion of a    *)
(* MyWellness JSON export into a TCX activity,                             *)
(*   main: load_json -> process_samples -> calculate_distances ->          *)
(*         interpolate_heart_rates -> calculate_metrics -> create_tcx.     *)
(*                                                                         *)
(* Numbers.  Python floats are modelled by exact rationals <<n, d>> in     *)
(* lowest terms with d > 0; a value that is NaN or infinite is the empty   *)
(* tuple.  Floating-point rounding error is not modelled.  Times are       *)
(* counted in ticks, TicksPerSecond ticks to a second, so that an offset   *)
(* may carry a sub-second part.  A DataFrame is a record of its column     *)
(* names and its rows; a row maps every column to a cell, <<v>> for the    *)
(* number v, <<n, d>> for a float column, <<>> for NaN.                    *)
(***************************************************************************)
EXTENDS Integers, Sequences, FiniteSets

VARIABLES pc, data, start_dt, df_samples, fact, metrics, out_file, failed

vars == <<pc, data, start_dt, df_samples, fact, metrics, out_file, failed>>

(***************************************************************************)
(* Bounds of the model.                                                    *)
(***************************************************************************)
MaxSamples == 3
MaxHr == 2
TicksPerSecond == 2

(***************************************************************************)
(* Constants of the program.                                               *)
(***************************************************************************)
\* datetime.timedelta.seconds is the seconds field of the normalised
\* (days, seconds, microseconds) triple: 0 <= seconds < 86400.
SecondsPerDay == 86400
\* np.arange(5, max(hr_times) + 1, 5): first key and step of the lookup.
HrStep == 5

(***************************************************************************)
(* Exact arithmetic standing for float arithmetic.                         *)
(***************************************************************************)
NaN == <<>>

Val(v) == <<v>>

Abs(x) == IF x < 0 THEN -x ELSE x

Min(a, b) == IF a <= b THEN a ELSE b

RECURSIVE GCD(_, _)
GCD(a, b) == IF b = 0 THEN a ELSE GCD(b, a % b)

\* The rational n/d (d # 0) in lowest terms with a positive denominator.
Frac(n, d) ==
    LET g == GCD(Abs(n), Abs(d))
        s == IF d < 0 THEN -1 ELSE 1
    IN  <<s * (n \div g), s * (d \div g)>>

\* float(c) of an integer cell; NaN stays NaN.
ToFloat(c) == IF c = NaN THEN NaN ELSE Frac(c[1], 1)

FAdd(x, y) ==
    IF x = NaN \/ y = NaN THEN NaN
    ELSE LET g == GCD(x[2], y[2])
         IN  Frac(x[1] * (y[2] \div g) + y[1] * (x[2] \div g), (x[2] \div g) * y[2])

FMul(x, y) ==
    IF x = NaN \/ y = NaN THEN NaN
    ELSE LET a == Frac(x[1], y[2])
             b == Frac(y[1], x[2])
         IN  Frac(a[1] * b[1], a[2] * b[2])

\* x / y of two floats: NaN when an operand is NaN; a zero divisor makes
\* numpy return inf or nan (with a warning, no exception), both of which
\* fail every comparison the program makes, so both are the non-finite NaN.
FDiv(x, y) ==
    IF x = NaN \/ y = NaN THEN NaN
    ELSE IF y[1] = 0 THEN NaN
    ELSE FMul(x, Frac(y[2], y[1]))

\* x < y; False as soon as an operand is NaN.
FLess(x, y) ==
    IF x = NaN \/ y = NaN THEN FALSE
    ELSE LET g == GCD(x[2], y[2])
         IN  x[1] * (y[2] \div g) < y[1] * (x[2] \div g)

\* int(x) of a finite float: truncation toward zero.
Trunc(x) ==
    IF x[1] >= 0 THEN x[1] \div x[2] ELSE -((-x[1]) \div x[2])

(***************************************************************************)
(* The input tree data["data"]["analitics"].                               *)
(***************************************************************************)
Channels == <<"Speed", "Power", "HDistance", "Rpm">>

\* A descriptor entry is {"pr": {"name": ...}}; only the name is read.
Descriptor(names) == [i \in 1..Len(names) |-> [pr |-> [name |-> names[i]]]]

\* Remove the i-th element of a sequence.
Without(s, i) == SubSeq(s, 1, i - 1) \o SubSeq(s, i + 1, Len(s))


(***************************************************************************)
(* process_samples                                                         *)
(***************************************************************************)
\* fields = [descriptor["pr"]["name"] for descriptor in analitics["descriptor"]]
Fields(analitics) ==
    [i \in 1..Len(analitics.descriptor) |-> analitics.descriptor[i].pr.name]

\* dict(zip(fields, sample["vs"])): zip stops at the shorter of the two, and
\* a repeated key keeps its last value.
ZipDict(fields, vs) ==
    LET m == Min(Len(fields), Len(vs))
        last(k) == CHOOSE i \in 1..m :
                       fields[i] = k /\ \A j \in 1..m : fields[j] = k => j <= i
    IN  [k \in {fields[i] : i \in 1..m} |-> Val(vs[last(k)])]

\* One pass of the loop body of lines 51-56: the dict of one raw sample.
SampleValues(fields, sample, sdt) ==
    LET z == ZipDict(fields, sample.vs)
    IN  [k \in DOMAIN z \cup {"datetime", "interval"} |->
            IF k = "datetime" THEN Val(sdt + sample.t)
            ELSE IF k = "interval" THEN Val(sample.t)
            ELSE z[k]]

\* pd.DataFrame(list of dicts): the columns are the union of the keys, and a
\* key a dict lacks is NaN in its row.
DataFrame(dicts) ==
    LET cols == UNION {DOMAIN dicts[i] : i \in 1..Len(dicts)}
    IN  [columns |-> cols,
         rows |-> [i \in 1..Len(dicts) |->
                     [c \in cols |-> IF c \in DOMAIN dicts[i] THEN dicts[i][c] ELSE NaN]]]

\* The test with `and` in place of `or`: a row counts as active only when
\* both Speed and Power are nonzero.
TrailingIdleAnd(df) ==
    LET last == df.rows[Len(df.rows)]
    IN  IF "Speed" \notin df.columns \/ "Power" \notin df.columns THEN "KeyError"
        ELSE IF last["Speed"] # Val(0) /\ last["Power"] # Val(0) THEN "break"
        ELSE "drop"

\* The test of lines 61-63 on the last row: "break" when the row is active,
\* "drop" when Speed and Power are both 0, "KeyError" when a column that is
\* read does not exist.  `or` reads Power only when Speed is 0, and NaN != 0.
TrailingIdle(df) ==
    LET last == df.rows[Len(df.rows)]
    IN  IF "Speed" \notin df.columns THEN "KeyError"
        ELSE IF last["Speed"] # Val(0) THEN "break"
        ELSE IF "Power" \notin df.columns THEN "KeyError"
        ELSE IF last["Power"] # Val(0) THEN "break"
        ELSE "drop"

\* df_samples[:-1]
DropLast(df) == [df EXCEPT !.rows = SubSeq(df.rows, 1, Len(df.rows) - 1)]

\* The trim with `if` in place of `while`: at most one row is removed.
TrimOnce(df) ==
    IF df.rows = <<>> THEN [err |-> FALSE, df |-> df]
    ELSE LET t == TrailingIdle(df)
         IN  IF t = "KeyError" THEN [err |-> TRUE, df |-> df]
             ELSE IF t = "break" THEN [err |-> FALSE, df |-> df]
             ELSE [err |-> FALSE, df |-> DropLast(df)]

\* The while loop of lines 60-64.
RECURSIVE TrimLoop(_)
TrimLoop(df) ==
    IF df.rows = <<>> THEN [err |-> FALSE, df |-> df]
    ELSE LET t == TrailingIdle(df)
         IN  IF t = "KeyError" THEN [err |-> TRUE, df |-> df]
             ELSE IF t = "break" THEN [err |-> FALSE, df |-> df]
             ELSE TrimLoop(DropLast(df))

\* The table before the trim: one row per raw sample, in input order.
SampleRows(analitics, sdt) ==
    DataFrame([i \in 1..Len(analitics.samples) |->
                 SampleValues(Fields(analitics), analitics.samples[i], sdt)])

process_samples(analitics, sdt) == TrimLoop(SampleRows(analitics, sdt))

(***************************************************************************)
(* calculate_distances                                                     *)
(***************************************************************************)
\* (datetime[i] - datetime[i-1]).seconds: the seconds field of the
\* normalised timedelta, so the sub-second part is dropped (floor) and whole
\* days are dropped as well.
DeltaTime(df, i) ==
    ((df.rows[i]["datetime"][1] - df.rows[i - 1]["datetime"][1]) \div TicksPerSecond)
        % SecondsPerDay

\* delta_time * Speed[i] / 3.6 * f, the increment of lines 81 and 96
\* (line 81 is the case f = 1).
Increment(df, i, f) ==
    FMul(FMul(FMul(Frac(DeltaTime(df, i), 1), ToFloat(df.rows[i]["Speed"])),
              Frac(5, 18)),
         f)

\* The value of dist after the pass of the loop of lines 77-82 (92-97) for
\* row i; before the loop it is HDistance.iloc[0].
RECURSIVE Dist(_, _, _)
Dist(df, i, f) ==
    IF i = 1 THEN ToFloat(df.rows[1]["HDistance"])
    ELSE FAdd(Dist(df, i - 1, f), Increment(df, i, f))

\* fact = HDistance.iloc[-1] / dist, line 85.
CorrectionFactor(df) ==
    FDiv(ToFloat(df.rows[Len(df.rows)]["HDistance"]), Dist(df, Len(df.rows), Frac(1, 1)))

\* The check with <= in place of <.
FactorAcceptedClosed(f) ==
    f # NaN /\ ~FLess(f, Frac(94, 100)) /\ ~FLess(Frac(106, 100), f)

\* assert 0.94 < fact < 1.06, line 87.
FactorAccepted(f) == FLess(Frac(94, 100), f) /\ FLess(f, Frac(106, 100))

\* The second pass without the factor: the provisional column is kept.
SmoothColumnUncorrected(df, f) ==
    [i \in 1..Len(df.rows) |-> Dist(df, i, Frac(1, 1))]

\* The SmoothDistance column after lines 89-97: row 0 keeps float(HDistance[0]),
\* row i >= 1 holds dist.
SmoothColumn(df, f) == [i \in 1..Len(df.rows) |-> Dist(df, i, f)]

\* df[name] = column: the column is added to (or replaced in) every row.
WithColumn(df, name, column) ==
    [columns |-> df.columns \cup {name},
     rows |-> [i \in 1..Len(df.rows) |->
                 [c \in df.columns \cup {name} |->
                     IF c = name THEN column[i] ELSE df.rows[i][c]]]]

\* calculate_distances with a guard that returns an empty table as it is.
calculate_distances_skip_empty(df) ==
    IF df.rows = <<>> THEN [err |-> FALSE, df |-> df, fact |-> NaN]
    ELSE IF "HDistance" \notin df.columns
            \/ (Len(df.rows) > 1 /\ "Speed" \notin df.columns)
         THEN [err |-> TRUE, df |-> df, fact |-> NaN]
    ELSE LET f == CorrectionFactor(df)
         IN  IF ~FactorAccepted(f) THEN [err |-> TRUE, df |-> df, fact |-> f]
             ELSE [err |-> FALSE,
                   df |-> WithColumn(df, "SmoothDistance", SmoothColumn(df, f)),
                   fact |-> f]

\* A missing HDistance column is a KeyError at line 74, an empty table an
\* IndexError at line 75, a missing Speed column a KeyError at line 81 (when
\* the loop runs), a factor outside the band an AssertionError at line 87.
calculate_distances(df) ==
    IF "HDistance" \notin df.columns \/ df.rows = <<>>
       \/ (Len(df.rows) > 1 /\ "Speed" \notin df.columns)
    THEN [err |-> TRUE, df |-> df, fact |-> NaN]
    ELSE LET f == CorrectionFactor(df)
         IN  IF ~FactorAccepted(f) THEN [err |-> TRUE, df |-> df, fact |-> f]
             ELSE [err |-> FALSE,
                   df |-> WithColumn(df, "SmoothDistance", SmoothColumn(df, f)),
                   fact |-> f]

(***************************************************************************)
(* interpolate_heart_rates                                                 *)
(***************************************************************************)
\* max(hr_times)
MaxHrTime(hr) ==
    CHOOSE m \in {hr[i].t : i \in 1..Len(hr)} : \A i \in 1..Len(hr) : hr[i].t <= m

\* interp1d sorts the points by time: the k-th point in that order (the
\* times of one series are distinct).
SortedPoint(hr, k) ==
    hr[CHOOSE i \in 1..Len(hr) :
           Cardinality({j \in 1..Len(hr) : hr[j].t < hr[i].t}) = k - 1]

\* interp1d(hr_times, hr_values, fill_value="extrapolate")(x): the segment is
\* the one around x, the first one below the first point and the last one
\* beyond the last point; the value lies on the line through its two ends.
Interpolate(hr, x) ==
    LET below == Cardinality({j \in 1..Len(hr) : hr[j].t < x})
        lo == IF below < 1 THEN 1 ELSE IF below > Len(hr) - 1 THEN Len(hr) - 1 ELSE below
        p == SortedPoint(hr, lo)
        q == SortedPoint(hr, lo + 1)
        slope == Frac(q.hr - p.hr, q.t - p.t)
    IN  FAdd(FMul(slope, Frac(x - p.t, 1)), Frac(p.hr, 1))

\* hr_intervals = np.arange(5, max(hr_times) + 1, 5), in seconds.
HrIntervals(hr) ==
    {HrStep * k : k \in {j \in 1..(MaxHrTime(hr) \div (HrStep * TicksPerSecond) + 1) :
                            HrStep * j * TicksPerSecond < MaxHrTime(hr) + TicksPerSecond}}

\* interpolated_hr_data = {int(interval): int(hr)}, lines 114-117.
InterpolatedHrData(hr) ==
    [s \in HrIntervals(hr) |-> Trunc(Interpolate(hr, s * TicksPerSecond))]

\* df["interval"].map(interpolated_hr_data): the value under the row's own
\* offset, NaN when the offset is no key.
MapHeartRate(df, table) ==
    [i \in 1..Len(df.rows) |->
        LET t == df.rows[i]["interval"][1]
        IN  IF t % TicksPerSecond = 0 /\ (t \div TicksPerSecond) \in DOMAIN table
            THEN Val(table[t \div TicksPerSecond])
            ELSE NaN]

\* Series.ffill(): a NaN takes the last value that is not NaN before it in
\* the column, and stays NaN when there is none.
RECURSIVE FfillAt(_, _)
FfillAt(column, i) ==
    IF column[i] # NaN THEN column[i]
    ELSE IF i = 1 THEN NaN
    ELSE FfillAt(column, i - 1)

\* No forward fill.
FfillNone(column) == column

Ffill(column) == [i \in 1..Len(column) |-> FfillAt(column, i)]

\* An empty hr list fails (ValueError) at line 111.
interpolate_heart_rates(analitics, df) ==
    IF analitics.hr = <<>> \/ "interval" \notin df.columns
    THEN [err |-> TRUE, df |-> df]
    ELSE [err |-> FALSE,
          df |-> WithColumn(df, "HeartRate",
                            Ffill(MapHeartRate(df, InterpolatedHrData(analitics.hr))))]

(***************************************************************************)
(* calculate_metrics                                                       *)
(***************************************************************************)
\* The cells of a column that are not NaN, as floats.
Resolved(df, name) ==
    {i \in 1..Len(df.rows) : df.rows[i][name] # NaN}

RECURSIVE SumCells(_, _, _)
SumCells(df, name, idx) ==
    IF idx = {} THEN Frac(0, 1)
    ELSE LET i == CHOOSE j \in idx : TRUE
         IN  FAdd(ToFloat(df.rows[i][name]), SumCells(df, name, idx \ {i}))

\* Series.max(): the largest cell that is not NaN, NaN when there is none.
ColumnMax(df, name) ==
    IF Resolved(df, name) = {} THEN NaN
    ELSE LET i == CHOOSE j \in Resolved(df, name) :
                      \A k \in Resolved(df, name) : df.rows[k][name][1] <= df.rows[j][name][1]
         IN  ToFloat(df.rows[i][name])

\* Series.mean(): the mean of the cells that are not NaN, NaN when there is
\* none.
ColumnMean(df, name) ==
    IF Resolved(df, name) = {} THEN NaN
    ELSE FMul(SumCells(df, name, Resolved(df, name)),
              Frac(1, Cardinality(Resolved(df, name))))

\* .iloc[-1] and .iloc[0] of an empty table raise IndexError, a missing
\* column KeyError.
calculate_metrics(df) ==
    IF df.rows = <<>>
       \/ {"interval", "SmoothDistance", "Speed", "HeartRate"} \ df.columns # {}
    THEN [err |-> TRUE, metrics |-> <<>>]
    ELSE [err |-> FALSE,
          metrics |-> <<[total_time_seconds |->
                            Frac(df.rows[Len(df.rows)]["interval"][1]
                                   - df.rows[1]["interval"][1], TicksPerSecond),
                         total_distance_meters |-> df.rows[Len(df.rows)]["SmoothDistance"],
                         max_speed |-> ColumnMax(df, "Speed"),
                         avg_heart_rate_bpm |-> ColumnMean(df, "HeartRate"),
                         max_heart_rate_bpm |-> ColumnMax(df, "HeartRate")]>>]

(***************************************************************************)
(* create_tcx                                                              *)
(***************************************************************************)
\* No output file.
NoFile == <<>>

\* Whether building the Trackpoint of row i raises: int(NaN) is a ValueError
\* (line 176), a missing Rpm, Speed or Power column a KeyError (lines 177-181).
TrackpointFails(df, i) ==
    \/ {"datetime", "SmoothDistance", "HeartRate", "Rpm", "Speed", "Power"} \ df.columns # {}
    \/ df.rows[i]["HeartRate"] = NaN

\* The Trackpoint of row i.  The decimal formatting of DistanceMeters and
\* Speed is not modelled.
Trackpoint(df, i) ==
    [Time |-> df.rows[i]["datetime"],
     HeartRateBpm |-> df.rows[i]["HeartRate"],
     Cadence |-> df.rows[i]["Rpm"],
     Watts |-> df.rows[i]["Power"]]

\* The document create_tcx builds (lines 148-185).
Document(df, m) ==
    [lap |-> m, track |-> [i \in 1..Len(df.rows) |-> Trackpoint(df, i)]]

\* create_tcx with the file opened before the Trackpoints are built: a
\* failure leaves a file without them.
create_tcx_open_first(df, m) ==
    IF \E i \in 1..Len(df.rows) : TrackpointFails(df, i)
    THEN [err |-> TRUE, file |-> <<[lap |-> m, track |-> <<>>]>>]
    ELSE [err |-> FALSE, file |-> <<Document(df, m)>>]

\* The file is opened and written (lines 186-187) after the whole tree is
\* built.
create_tcx(df, m) ==
    IF \E i \in 1..Len(df.rows) : TrackpointFails(df, i)
    THEN [err |-> TRUE, file |-> NoFile]
    ELSE [err |-> FALSE, file |-> <<Document(df, m)>>]

(***************************************************************************)
(* The inputs the model draws from.  Offsets are strictly increasing       *)
(* within one export; they include a sub-second offset and one that is     *)
(* more than a day after the others.  The input space is the union of      *)
(* five families, each of which varies some of the fields freely.          *)
(***************************************************************************)
Offsets ==
    {0, 5 * TicksPerSecond, 5 * TicksPerSecond + 1, 10 * TicksPerSecond,
     (SecondsPerDay + 5) * TicksPerSecond}

Speeds == {0, 36}

Powers == {0, 100}

HDistances == {0, 47, 50, 51, 53}

FirstHDistances == {0, 50}

Shapes == {"exact", "short", "long"}

StartTimes == {60 * TicksPerSecond}

HrTimes == {0, 3 * TicksPerSecond, 7 * TicksPerSecond, 20 * TicksPerSecond}

Bpms == {60, 121}

Lengths == 0..MaxSamples

IncreasingOffsets(n) ==
    {ts \in [1..n -> Offsets] : \A i \in 1..(n - 1) : ts[i] < ts[i + 1]}

EvenOffsets(n) == [i \in 1..n |-> HrStep * i * TicksPerSecond]

\* The value vector of a sample under a descriptor: one value per channel
\* ("exact"), the last value missing ("short"), or one value too many ("long").
ValueVector(names, speed, power, hdistance, shape) ==
    LET v(c) == IF c = "Speed" THEN speed
                ELSE IF c = "Power" THEN power
                ELSE IF c = "HDistance" THEN hdistance
                ELSE 80
        exact == [i \in 1..Len(names) |-> v(names[i])]
    IN  IF shape = "short" THEN SubSeq(exact, 1, Len(exact) - 1)
        ELSE IF shape = "long" THEN Append(exact, 0)
        ELSE exact

\* Distance readings that agree with the integral of the speed the program
\* computes, starting from 50 m: they give a correction factor of 1.
RECURSIVE AgreeingDistance(_, _, _)
AgreeingDistance(ts, speeds, i) ==
    IF i = 1 THEN 50
    ELSE AgreeingDistance(ts, speeds, i - 1)
         + ((((ts[i] - ts[i - 1]) \div TicksPerSecond) % SecondsPerDay) * speeds[i] * 5) \div 18

Analitics(names, ts, speeds, powers, hdistances, shapes, hr) ==
    [descriptor |-> Descriptor(names),
     samples |-> [i \in 1..Len(ts) |->
                    [t |-> ts[i],
                     vs |-> ValueVector(names, speeds[i], powers[i], hdistances[i], shapes[i])]],
     hr |-> hr]

DefaultHr == <<[t |-> 0, hr |-> 60], [t |-> 10 * TicksPerSecond, hr |-> 120]>>

\* The heart-rate series: empty, or at least two points at distinct times, in
\* any order.  A series of one point or with a repeated time is not drawn.
HrSeries ==
    {<<>>} \cup
    UNION {{[i \in 1..n |-> [t |-> ts[i], hr |-> bs[i]]] :
               ts \in {x \in [1..n -> HrTimes] : \A i, j \in 1..n : i # j => x[i] # x[j]},
               bs \in [1..n -> Bpms]} : n \in 2..MaxHr}

\* Speed and Power vary.
TrimInput(d) ==
    \E n \in Lengths :
      \E sp \in [1..n -> Speeds], pw \in [1..n -> Powers] :
        d = Analitics(Channels, EvenOffsets(n), sp, pw,
                      [i \in 1..n |-> AgreeingDistance(EvenOffsets(n), sp, i)],
                      [i \in 1..n |-> "exact"], DefaultHr)

\* The length of each value vector varies.
ShapeInput(d) ==
    \E n \in Lengths :
      \E sh \in [1..n -> Shapes] :
        d = Analitics(Channels, EvenOffsets(n), [i \in 1..n |-> 36], [i \in 1..n |-> 100],
                      [i \in 1..n |-> AgreeingDistance(EvenOffsets(n), [j \in 1..n |-> 36], i)],
                      sh, DefaultHr)

\* The offsets, Speed and HDistance vary: the last reading ranges over
\* HDistances, the earlier ones over FirstHDistances.
DistanceInput(d) ==
    \E n \in Lengths :
      \E ts \in IncreasingOffsets(n), sp \in [1..n -> Speeds],
         hd \in {h \in [1..n -> HDistances] : \A i \in 1..(n - 1) : h[i] \in FirstHDistances} :
        d = Analitics(Channels, ts, sp, [i \in 1..n |-> 100], hd,
                      [i \in 1..n |-> "exact"], DefaultHr)

\* The offsets and the heart-rate series vary.
HeartRateInput(d) ==
    \E n \in Lengths :
      \E ts \in IncreasingOffsets(n), hr \in HrSeries :
        d = Analitics(Channels, ts, [i \in 1..n |-> 36], [i \in 1..n |-> 100],
                      [i \in 1..n |-> AgreeingDistance(ts, [j \in 1..n |-> 36], i)],
                      [i \in 1..n |-> "exact"], hr)

\* The descriptor lacks one channel; Speed and Power vary, and the value
\* vectors are all exact or all short.
DescriptorInput(d) ==
    \E n \in Lengths, k \in 1..Len(Channels), shape \in {"exact", "short"} :
      \E sp \in [1..n -> Speeds], pw \in [1..n -> Powers] :
        d = Analitics(Without(Channels, k), EvenOffsets(n), sp, pw,
                      [i \in 1..n |-> AgreeingDistance(EvenOffsets(n), sp, i)],
                      [i \in 1..n |-> shape], DefaultHr)

(***************************************************************************)
(* main: the pipeline, one action per call.                                *)
(***************************************************************************)
NoData == [descriptor |-> <<>>, samples |-> <<>>, hr |-> <<>>]

EmptyFrame == [columns |-> {}, rows |-> <<>>]

Init ==
    /\ pc = "load_json"
    /\ data = NoData
    /\ start_dt = 0
    /\ df_samples = EmptyFrame
    /\ fact = NaN
    /\ metrics = <<>>
    /\ out_file = NoFile
    /\ failed = ""

\* The step "failed" raised: the exception is not caught, the process ends.
Raise(stage) ==
    /\ pc' = "error"
    /\ failed' = stage

\* start_dt = datetime.strptime(...); data = load_json(args.in_file)
LoadJson ==
    /\ pc = "load_json"
    /\ \/ TrimInput(data')
       \/ ShapeInput(data')
       \/ DistanceInput(data')
       \/ HeartRateInput(data')
       \/ DescriptorInput(data')
    /\ start_dt' \in StartTimes
    /\ pc' = "process_samples"
    /\ UNCHANGED <<df_samples, fact, metrics, out_file, failed>>

\* load_json catches every exception of the read and exits with status 1.
LoadJsonFails ==
    /\ pc = "load_json"
    /\ Raise("load_json")
    /\ UNCHANGED <<data, start_dt, df_samples, fact, metrics, out_file>>

ProcessSamples ==
    /\ pc = "process_samples"
    /\ LET r == process_samples(data, start_dt)
       IN  IF r.err
           THEN Raise("process_samples") /\ UNCHANGED df_samples
           ELSE pc' = "calculate_distances" /\ df_samples' = r.df /\ UNCHANGED failed
    /\ UNCHANGED <<data, start_dt, fact, metrics, out_file>>

CalculateDistances ==
    /\ pc = "calculate_distances"
    /\ LET r == calculate_distances(df_samples)
       IN  /\ fact' = r.fact
           /\ IF r.err
              THEN Raise("calculate_distances") /\ UNCHANGED df_samples
              ELSE pc' = "interpolate_heart_rates" /\ df_samples' = r.df /\ UNCHANGED failed
    /\ UNCHANGED <<data, start_dt, metrics, out_file>>

InterpolateHeartRates ==
    /\ pc = "interpolate_heart_rates"
    /\ LET r == interpolate_heart_rates(data, df_samples)
       IN  IF r.err
           THEN Raise("interpolate_heart_rates") /\ UNCHANGED df_samples
           ELSE pc' = "calculate_metrics" /\ df_samples' = r.df /\ UNCHANGED failed
    /\ UNCHANGED <<data, start_dt, fact, metrics, out_file>>

CalculateMetrics ==
    /\ pc = "calculate_metrics"
    /\ LET r == calculate_metrics(df_samples)
       IN  IF r.err
           THEN Raise("calculate_metrics") /\ UNCHANGED metrics
           ELSE pc' = "create_tcx" /\ metrics' = r.metrics /\ UNCHANGED failed
    /\ UNCHANGED <<data, start_dt, df_samples, fact, out_file>>

CreateTcx ==
    /\ pc = "create_tcx"
    /\ LET r == create_tcx(df_samples, metrics)
       IN  /\ out_file' = r.file
           /\ IF r.err
              THEN Raise("create_tcx")
              ELSE pc' = "done" /\ UNCHANGED failed
    /\ UNCHANGED <<data, start_dt, df_samples, fact, metrics>>

Next ==
    \/ LoadJson
    \/ LoadJsonFails
    \/ ProcessSamples
    \/ CalculateDistances
    \/ InterpolateHeartRates
    \/ CalculateMetrics
    \/ CreateTcx

Spec == Init /\ [][Next]_vars

(***************************************************************************)
(* Vocabulary of the properties.                                           *)
(***************************************************************************)
StageNo(stage) ==
    CASE stage = "load_json" -> 0
      [] stage = "process_samples" -> 1
      [] stage = "calculate_distances" -> 2
      [] stage = "interpolate_heart_rates" -> 3
      [] stage = "calculate_metrics" -> 4
      [] stage = "create_tcx" -> 5
      [] stage = "done" -> 6

\* The stage returned without raising.
Completed(stage) == StageNo(IF pc = "error" THEN failed ELSE pc) > StageNo(stage)

\* The stage was called: it returned or it raised.
Ran(stage) == Completed(stage) \/ (pc = "error" /\ failed = stage)

NRows == Len(df_samples.rows)

Cell(i, name) == df_samples.rows[i][name]

FSub(x, y) == FAdd(x, FMul(Frac(-1, 1), y))

\* calculate_distances computed a factor: the table it was given has rows
\* and the columns it reads.
FactorComputed ==
    /\ Ran("calculate_distances")
    /\ NRows > 0
    /\ {"HDistance", "Speed"} \subseteq df_samples.columns

(***************************************************************************)
(* C1.  The factor check of calculate_distances.                           *)
(***************************************************************************)
\* C1 as stated: the check accepts exactly the factors of the closed band
\* [0.94, 1.06]: whenever a factor is computed, the conversion proceeds past
\* calculate_distances if and only if 0.94 <= factor <= 1.06.
C1_ClosedBand ==
    FactorComputed =>
        (Completed("calculate_distances")
            <=> (fact # NaN /\ 94 * fact[2] <= 100 * fact[1] /\ 100 * fact[1] <= 106 * fact[2]))

\* C1 as amended: the check accepts exactly the factors of the open band
\* (0.94, 1.06): whenever a factor is computed, the conversion proceeds past
\* calculate_distances if and only if 0.94 < factor < 1.06; a factor of
\* exactly 0.94 or 1.06, and a factor that is not a finite number, fail.
C1_OpenBand ==
    FactorComputed =>
        (Completed("calculate_distances")
            <=> (fact # NaN /\ 94 * fact[2] < 100 * fact[1] /\ 100 * fact[1] < 106 * fact[2]))

\* A table whose factor is exactly 0.94 was rejected.
C1_Witness ==
    /\ FactorComputed
    /\ fact = <<47, 50>>
    /\ pc = "error"
    /\ failed = "calculate_distances"

(***************************************************************************)
(* C2.  All-or-nothing conversion.                                         *)
(***************************************************************************)
\* C2: the output file exists only in a run in which every stage has
\* returned and the Trackpoint of every row has been built; a run in which a
\* stage raised has no output file.
C2_AllOrNothing ==
    /\ pc = "error" => out_file = NoFile
    /\ out_file # NoFile =>
          /\ pc = "done"
          /\ failed = ""
          /\ Len(out_file[1].track) = NRows
          /\ \A i \in 1..NRows : ~TrackpointFails(df_samples, i)

\* create_tcx raised while it built the Trackpoints, and left no file.
C2_Witness ==
    /\ pc = "error"
    /\ failed = "create_tcx"
    /\ NRows > 0
    /\ out_file = NoFile

(***************************************************************************)
(* C3.  The trailing-idle trim is idempotent.                              *)
(***************************************************************************)
\* C3: trimming the table process_samples returned removes no row: the table
\* is empty or its last row has a nonzero Speed or a nonzero Power.
C3_TrimIdempotent ==
    Completed("process_samples") =>
        /\ TrimLoop(df_samples) = [err |-> FALSE, df |-> df_samples]
        /\ \/ NRows = 0
           \/ "Speed" \in df_samples.columns /\ Cell(NRows, "Speed") # Val(0)
           \/ "Power" \in df_samples.columns /\ Cell(NRows, "Power") # Val(0)

\* The trim removed several rows and kept some.
C3_Witness ==
    /\ Completed("process_samples")
    /\ NRows > 0
    /\ NRows + 1 < Len(data.samples)

(***************************************************************************)
(* C4.  A value vector of the wrong length.                                *)
(***************************************************************************)
\* C4: whenever a raw sample's value vector differs in length from the
\* descriptor, process_samples raises.
C4_LengthMismatchRaises ==
    (/\ Ran("process_samples")
     /\ \E i \in 1..Len(data.samples) :
            Len(data.samples[i].vs) # Len(data.descriptor))
        => (pc = "error" /\ failed = "process_samples")

(***************************************************************************)
(* C5.  Forward fill of the heart rate.                                    *)
(***************************************************************************)
\* The offset of row i is a key of the lookup table.
IsKey(i) ==
    /\ Cell(i, "interval")[1] % TicksPerSecond = 0
    /\ (Cell(i, "interval")[1] \div TicksPerSecond) \in HrIntervals(data.hr)

\* C5 as stated: after interpolate_heart_rates every row whose offset is at
\* least the smallest key of the lookup table, 5 s, has a resolved HeartRate.
C5_ResolvedFromFirstKey ==
    (Completed("interpolate_heart_rates") /\ HrIntervals(data.hr) # {}) =>
        \A i \in 1..NRows :
            Cell(i, "interval")[1] >= HrStep * TicksPerSecond => Cell(i, "HeartRate") # NaN

\* C5 as amended: after interpolate_heart_rates every row at or after the
\* first row whose own offset is a key of the lookup table has a resolved
\* HeartRate; a row whose offset is a key holds the lookup value of that
\* offset, any other row holds the HeartRate of the row before it, and a row
\* whose offset is no key and that has no row before it is unresolved.
C5_ResolvedFromFirstKeyRow ==
    Completed("interpolate_heart_rates") =>
        \A i \in 1..NRows :
            /\ IsKey(i) =>
                  Cell(i, "HeartRate")
                      = Val(InterpolatedHrData(data.hr)[Cell(i, "interval")[1] \div TicksPerSecond])
            /\ (~IsKey(i) /\ i > 1) => Cell(i, "HeartRate") = Cell(i - 1, "HeartRate")
            /\ (~IsKey(i) /\ i = 1) => Cell(i, "HeartRate") = NaN
            /\ (\E j \in 1..i : IsKey(j)) => Cell(i, "HeartRate") # NaN

\* A row whose offset is no key took the value of an earlier row.
C5_Witness ==
    /\ Completed("interpolate_heart_rates")
    /\ \E i \in 2..NRows : ~IsKey(i) /\ Cell(i, "HeartRate") # NaN

(***************************************************************************)
(* C6.  An unresolved heart rate when the metrics are computed.            *)
(***************************************************************************)
\* C6: when a row has an unresolved HeartRate, calculate_metrics raises.
C6_UnresolvedFailsMetrics ==
    (/\ Ran("calculate_metrics")
     /\ \E i \in 1..NRows : Cell(i, "HeartRate") = NaN)
        => (pc = "error" /\ failed = "calculate_metrics")

(***************************************************************************)
(* C7.  The empty table.                                                   *)
(***************************************************************************)
\* C7: a run whose trimmed table is empty ends in an error before
\* interpolate_heart_rates, calculate_metrics or create_tcx is called and
\* writes no file; calculate_metrics raises on the empty table.
C7_EmptyTableFails ==
    (Completed("process_samples") /\ NRows = 0) =>
        /\ pc = "calculate_distances" \/ (pc = "error" /\ failed = "calculate_distances")
        /\ out_file = NoFile
        /\ calculate_metrics(WithColumn(WithColumn(df_samples, "SmoothDistance", <<>>),
                                        "HeartRate", <<>>)).err

\* Every row of a non-empty export was trimmed, and calculate_distances
\* raised.
C7_Witness ==
    /\ pc = "error"
    /\ failed = "calculate_distances"
    /\ NRows = 0
    /\ data.samples # <<>>

(***************************************************************************)
(* C8.  What the trim keeps.                                               *)
(***************************************************************************)
\* Row i of the untrimmed table has a nonzero Speed or a nonzero Power.
ActiveRow(i) ==
    LET all == SampleRows(data, start_dt)
    IN  \/ "Speed" \in all.columns /\ all.rows[i]["Speed"] # Val(0)
        \/ "Power" \in all.columns /\ all.rows[i]["Power"] # Val(0)

\* The number of the last active row, 0 when no row is active.
LastActive ==
    LET act == {i \in 1..Len(data.samples) : ActiveRow(i)}
    IN  IF act = {} THEN 0 ELSE CHOOSE i \in act : \A j \in act : j <= i

\* C8: the table process_samples returns is the untrimmed table cut after
\* its last active row: the rows up to it are kept, in order and unchanged,
\* the idle rows among them included.
C8_LongestActivePrefix ==
    pc = "calculate_distances" =>
        df_samples = [columns |-> SampleRows(data, start_dt).columns,
                      rows |-> SubSeq(SampleRows(data, start_dt).rows, 1, LastActive)]

\* An idle row before the last active row was kept, and a trailing idle row
\* removed.
C8_Witness ==
    /\ pc = "calculate_distances"
    /\ NRows < Len(data.samples)
    /\ \E i \in 1..NRows : ~ActiveRow(i)

(***************************************************************************)
(* C9.  The smoothed distance.                                             *)
(***************************************************************************)
\* The whole seconds between row i - 1 and row i.
ElapsedSeconds(i) ==
    (Cell(i, "datetime")[1] - Cell(i - 1, "datetime")[1]) \div TicksPerSecond

\* The sum of C9 for row i with factor f.
RECURSIVE C9_Sum(_, _)
C9_Sum(i, f) ==
    IF i = 1 THEN ToFloat(Cell(1, "HDistance"))
    ELSE FAdd(C9_Sum(i - 1, f),
              FMul(f, FMul(FMul(Frac(ElapsedSeconds(i), 1), ToFloat(Cell(i, "Speed"))),
                           Frac(5, 18))))

C9_Factor == FDiv(ToFloat(Cell(NRows, "HDistance")), C9_Sum(NRows, Frac(1, 1)))

\* C9: for a table that passed the factor check, SmoothDistance[0] is
\* HDistance[0] and SmoothDistance[i] is SmoothDistance[i-1] + factor *
\* trunc(time[i] - time[i-1]) * Speed[i] / 3.6, with the factor taken from
\* the same sum with factor 1.
C9_SmoothDistance ==
    Completed("calculate_distances") =>
        \A i \in 1..NRows : Cell(i, "SmoothDistance") = C9_Sum(i, C9_Factor)

\* The same, for the tables whose consecutive rows are less than a day apart.
C9_WithinADay ==
    (/\ Completed("calculate_distances")
     /\ \A i \in 2..NRows : ElapsedSeconds(i) < SecondsPerDay)
        => \A i \in 1..NRows : Cell(i, "SmoothDistance") = C9_Sum(i, C9_Factor)

(***************************************************************************)
(* C10.  The last smoothed distance.                                       *)
(***************************************************************************)
\* C10: for a table that passed the factor check, when HDistance[0] = 0 the
\* last SmoothDistance, which is the total_distance_meters metric, equals the
\* last HDistance; when HDistance[0] = d0 # 0 the last SmoothDistance is
\* d0 + factor * (provisional_last - d0), and it equals the last HDistance
\* only if the factor is 1.
C10_LastSmoothDistance ==
    Completed("calculate_distances") =>
        LET d0 == ToFloat(Cell(1, "HDistance"))
            dl == ToFloat(Cell(NRows, "HDistance"))
            last == Cell(NRows, "SmoothDistance")
            prov == Dist(df_samples, NRows, Frac(1, 1))
        IN  /\ d0 = Frac(0, 1) => last = dl
            /\ d0 # Frac(0, 1) =>
                  /\ last = FAdd(d0, FMul(fact, FSub(prov, d0)))
                  /\ last = dl => fact = Frac(1, 1)
            /\ Completed("calculate_metrics") => metrics[1].total_distance_meters = last

\* A table that starts at distance 0 passed with a factor other than 1, and
\* its metrics were computed.
C10_Witness ==
    /\ Completed("calculate_metrics")
    /\ NRows > 1
    /\ Cell(1, "HDistance") = Val(0)
    /\ fact # Frac(1, 1)

=============================================================================
